---- MODULE Spec2Model ----
(***************************************************************************)
(* Model of avatarlib (256avatars): a bit-packed boolean pixel grid, the   *)
(* random and mirrored fills, keyed construction, PNG rendering and the    *)
(* save / path / delete helpers.                                           *)
(*                                                                         *)
(* Four specifications share the variables:                                *)
(*   SpecGen   one generation call on drawn arguments                      *)
(*   SpecPix   a fill, then SetPixel and GetPixel calls on the grid        *)
(*   SpecFS    sequential SaveAvatar / DeleteAvatar calls                  *)
(*   SpecConc  two SaveAvatar calls on one path running concurrently       *)
(***************************************************************************)
EXTENDS Integers, Sequences, FiniteSets, TLC

\* ------------------------------------------------------------------ bounds
\* Largest width and height a generation call is given.
MaxW == 3
MaxH == 3

\* ---------------------------------------------------------------- pointers
\* A Go pointer result: <<>> is nil, <<v>> points to v.
Nil == <<>>
Ptr(v) == <<v>>

\* ------------------------------------------------------------------ errors
NoErr == "nil"
ErrInvalidDimensions == "invalid dimensions"
ErrRandomGeneration == "random generation failed"
ErrRandomRead == "random read failed"

\* ---------------------------------------------------------- entropy source
\* Byte values the entropy source hands out: low bit set with the rest
\* clear, and low bit clear with the rest set.
ByteVals == {1, 254}
\* Bytes an entropy source of the model can deliver: enough for the longest
\* mirrored fill (one byte per left-half pixel) and the largest buffer.
SrcLen == MaxH * ((MaxW + 1) \div 2)
\* An entropy source: the bytes it delivers, in order, and the number of the
\* rand.Read call that fails (0: none fails).
Sources == [bytes : [1..SrcLen -> ByteVals], failAt : 0..SrcLen]
\* rand.Read of n bytes, the call-th call, with `used` bytes delivered so
\* far: failure, or the next n bytes.  An exhausted source fails.
RandRead(src, nth, used, n) ==
  IF nth = src.failAt \/ used + n > Len(src.bytes)
  THEN [ok |-> FALSE, data |-> <<>>]
  ELSE [ok |-> TRUE, data |-> SubSeq(src.bytes, used + 1, used + n)]

\* ------------------------------------------------------------- byte helpers
Pow2(i) == 2 ^ i
\* b & (1 << i) != 0
BitIsSet(b, i) == (b \div Pow2(i)) % 2 = 1
\* Faulty variant of OrBit: the byte is assigned the mask instead of or-ed with it.
OrBitAssign(b, i) == Pow2(i)

\* b |= 1 << i
OrBit(b, i) == IF BitIsSet(b, i) THEN b ELSE b + Pow2(i)
\* b &^= 1 << i
AndNotBit(b, i) == IF BitIsSet(b, i) THEN b - Pow2(i) ELSE b

\* ------------------------------------------------------------------ Avatar
\* Faulty variant of OutOfBounds: x > Width in place of x >= Width.
OutOfBoundsOffByOne(a, x, y) == x < 0 \/ x > a.Width \/ y < 0 \/ y >= a.Height

OutOfBounds(a, x, y) == x < 0 \/ x >= a.Width \/ y < 0 \/ y >= a.Height

GetPixel(a, x, y) ==
  IF OutOfBounds(a, x, y) THEN FALSE
  ELSE LET idx == y * a.Width + x
           byteIdx == idx \div 8
           bitIdx == idx % 8
       IN  BitIsSet(a.Pixels[byteIdx + 1], bitIdx)

\* Faulty variant of SetPixel: the bit is counted from the most significant end.
SetPixelMsbFirst(a, x, y, val) ==
  IF OutOfBounds(a, x, y) THEN a
  ELSE LET idx == y * a.Width + x
           byteIdx == idx \div 8
           bitIdx == 7 - (idx % 8)
       IN  [a EXCEPT !.Pixels[byteIdx + 1] =
              IF val THEN OrBit(@, bitIdx) ELSE AndNotBit(@, bitIdx)]

SetPixel(a, x, y, val) ==
  IF OutOfBounds(a, x, y) THEN a
  ELSE LET idx == y * a.Width + x
           byteIdx == idx \div 8
           bitIdx == idx % 8
       IN  [a EXCEPT !.Pixels[byteIdx + 1] =
              IF val THEN OrBit(@, bitIdx) ELSE AndNotBit(@, bitIdx)]

\* make([]byte, n)
ZeroBytes(n) == [i \in 1..n |-> 0]

\* Faulty variant of BytesLen: one byte per pixel, the division by 8 forgotten.
BytesLenUnpacked(width, height) == width * height

\* (bits + 7) / 8
BytesLen(width, height) == (width * height + 7) \div 8

\* GenerateAvatar on entropy source src.  The result carries the number of
\* rand.Read calls made and of bytes delivered.
GenerateAvatar(width, height, src) ==
  IF width <= 0 \/ height <= 0
  THEN [avatar |-> Nil, err |-> ErrInvalidDimensions, reads |-> 0, used |-> 0]
  ELSE LET bytesLen == BytesLen(width, height)
           rd == RandRead(src, 1, 0, bytesLen)
       IN  IF ~rd.ok
           THEN [avatar |-> Nil, err |-> ErrRandomGeneration, reads |-> 1, used |-> 0]
           ELSE [avatar |-> Ptr([Width |-> width, Height |-> height,
                                 Pixels |-> rd.data]),
                 err |-> NoErr, reads |-> 1, used |-> bytesLen]

\* Faulty variant of HalfWidth: width / 2, which leaves out the centre column.
HalfWidthFloor(width) == width \div 2

\* (width + 1) / 2
HalfWidth(width) == (width + 1) \div 2

\* val := (b[0] & 1) == 1
LowBit(b) == (b % 2) = 1

\* Faulty variant of SymmetricLoop: the mirror column is width - x.
RECURSIVE SymmetricLoopWrongMirror(_, _, _, _, _, _)
SymmetricLoopWrongMirror(a, halfWidth, src, y, x, reads) ==
  IF y >= a.Height
  THEN [avatar |-> Ptr(a), err |-> NoErr, reads |-> reads, used |-> reads]
  ELSE IF x >= halfWidth THEN SymmetricLoopWrongMirror(a, halfWidth, src, y + 1, 0, reads)
  ELSE LET rd == RandRead(src, reads + 1, reads, 1)
       IN  IF ~rd.ok
           THEN [avatar |-> Nil, err |-> ErrRandomRead,
                 reads |-> reads + 1, used |-> reads]
           ELSE LET val == LowBit(rd.data[1])
                    a1 == SetPixel(a, x, y, val)
                    mirrorX == a.Width - x
                    a2 == IF mirrorX # x THEN SetPixel(a1, mirrorX, y, val) ELSE a1
                IN  SymmetricLoopWrongMirror(a2, halfWidth, src, y, x + 1, reads + 1)

\* The two loops of GenerateSymmetric, from position (x, y) with `reads`
\* one-byte reads of the entropy source already made.
RECURSIVE SymmetricLoop(_, _, _, _, _, _)
SymmetricLoop(a, halfWidth, src, y, x, reads) ==
  IF y >= a.Height
  THEN [avatar |-> Ptr(a), err |-> NoErr, reads |-> reads, used |-> reads]
  ELSE IF x >= halfWidth THEN SymmetricLoop(a, halfWidth, src, y + 1, 0, reads)
  ELSE LET rd == RandRead(src, reads + 1, reads, 1)
       IN  IF ~rd.ok
           THEN [avatar |-> Nil, err |-> ErrRandomRead,
                 reads |-> reads + 1, used |-> reads]
           ELSE LET val == LowBit(rd.data[1])
                    a1 == SetPixel(a, x, y, val)
                    mirrorX == a.Width - 1 - x
                    a2 == IF mirrorX # x THEN SetPixel(a1, mirrorX, y, val) ELSE a1
                IN  SymmetricLoop(a2, halfWidth, src, y, x + 1, reads + 1)

\* Faulty variant of GenerateSymmetric: the dimension check lets 0 through.
GenerateSymmetricLaxCheck(width, height, src) ==
  IF width < 0 \/ height < 0
  THEN [avatar |-> Nil, err |-> ErrInvalidDimensions, reads |-> 0, used |-> 0]
  ELSE LET a == [Width |-> width, Height |-> height,
                 Pixels |-> ZeroBytes(BytesLen(width, height))]
       IN  SymmetricLoop(a, HalfWidth(width), src, 0, 0, 0)

GenerateSymmetric(width, height, src) ==
  IF width <= 0 \/ height <= 0
  THEN [avatar |-> Nil, err |-> ErrInvalidDimensions, reads |-> 0, used |-> 0]
  ELSE LET a == [Width |-> width, Height |-> height,
                 Pixels |-> ZeroBytes(BytesLen(width, height))]
       IN  SymmetricLoop(a, HalfWidth(width), src, 0, 0, 0)

\* The switch of GenerateKeyAvatar: the fill a method value selects.
KeyFill(width, height, method, src) ==
  IF method = "symmetric" THEN GenerateSymmetric(width, height, src)
  ELSE GenerateAvatar(width, height, src)

GenerateKeyAvatar(key, width, height, method, src) ==
  LET r == KeyFill(width, height, method, src)
  IN  IF r.err # NoErr
      THEN [keyAvatar |-> Nil, err |-> r.err, reads |-> r.reads, used |-> r.used]
      ELSE [keyAvatar |-> Ptr([Key |-> key, Avatar |-> r.avatar[1]]),
            err |-> NoErr, reads |-> r.reads, used |-> r.used]

\* --------------------------------------------------------------- rendering
\* The image.Gray that RenderPNG fills: one sample per pixel, row-major,
\* 255 where GetPixel is true and 0 where it is false.
GrayImage(a) ==
  [i \in 1..(a.Width * a.Height) |->
     IF GetPixel(a, (i - 1) % a.Width, (i - 1) \div a.Width) THEN 255 ELSE 0]

\* png.Encode: a byte stream that carries the image's size and its samples.
PngEncode(width, height, samples) == <<width, height>> \o samples

RenderPNG(a) == PngEncode(a.Width, a.Height, GrayImage(a))

\* -------------------------------------------------------------- filesystem
ErrEncode == "png encode failed"
ErrMkdir == "mkdir failed"
ErrOpen == "open failed"
ErrWrite == "write failed"
ErrNotExist == "file does not exist"
ErrPermission == "permission denied"

\* filepath.Join(folder, name): a path is the sequence of its elements.
Join(folder, name) == Append(folder, name)

\* os.MkdirAll: the folder and every missing parent become directories.
MkdirAll(ds, folder) == ds \cup {SubSeq(folder, 1, n) : n \in 1..Len(folder)}

\* The file at `name` holding `data`, every other file as it was.
WithFile(fs, name, data) ==
  [p \in DOMAIN fs \cup {name} |-> IF p = name THEN data ELSE fs[p]]

\* os.Remove of an existing file.
WithoutFile(fs, name) == [p \in DOMAIN fs \ {name} |-> fs[p]]

\* os.WriteFile opens with O_WRONLY|O_CREATE|O_TRUNC: the file exists, empty.
OpenTrunc(fs, name) == WithFile(fs, name, <<>>)

\* One write of `data` at offset 0 of the open file: bytes beyond the data
\* that the file holds stay.
WriteAt0(fs, name, data) ==
  WithFile(fs, name, data \o SubSeq(fs[name], Len(data) + 1, Len(fs[name])))

\* Faulty variant of GetAvatarPath: the ".png" extension is left out.
GetAvatarPathNoExt(folder, key) == Join(folder, key)

GetAvatarPath(folder, key) == Join(folder, key \o ".png")

\* Faulty variant of SaveAvatar: a file that exists is left as it is.
SaveAvatarKeepExisting(fs, ds, folder, ka, fault) ==
  LET pngData == RenderPNG(ka.Avatar)
      filename == Join(folder, ka.Key \o ".png")
  IN  IF fault # "none" THEN [files |-> fs, dirs |-> ds, err |-> ErrMkdir]
      ELSE IF filename \in DOMAIN fs
        THEN [files |-> fs, dirs |-> MkdirAll(ds, folder), err |-> NoErr]
      ELSE [files |-> WithFile(fs, filename, pngData),
            dirs |-> MkdirAll(ds, folder), err |-> NoErr]

\* SaveAvatar on files fs and directories ds.  fault names the step the
\* environment makes fail: "encode", "mkdir", "open", "write", or "none".
SaveAvatar(fs, ds, folder, ka, fault) ==
  LET pngData == RenderPNG(ka.Avatar)
      filename == Join(folder, ka.Key \o ".png")
  IN  IF fault = "encode" THEN [files |-> fs, dirs |-> ds, err |-> ErrEncode]
      ELSE IF fault = "mkdir" THEN [files |-> fs, dirs |-> ds, err |-> ErrMkdir]
      ELSE IF fault = "open"
        THEN [files |-> fs, dirs |-> MkdirAll(ds, folder), err |-> ErrOpen]
      ELSE IF fault = "write"
        THEN [files |-> OpenTrunc(fs, filename),
              dirs |-> MkdirAll(ds, folder), err |-> ErrWrite]
      ELSE [files |-> WriteAt0(OpenTrunc(fs, filename), filename, pngData),
            dirs |-> MkdirAll(ds, folder), err |-> NoErr]

\* DeleteAvatar.  fault "perm": the environment refuses the removal.
DeleteAvatar(fs, folder, key, fault) ==
  LET filename == Join(folder, key \o ".png")
  IN  IF filename \notin DOMAIN fs THEN [files |-> fs, err |-> ErrNotExist]
      ELSE IF fault = "perm" THEN [files |-> fs, err |-> ErrPermission]
      ELSE [files |-> WithoutFile(fs, filename), err |-> NoErr]

\* ------------------------------------------------------------------- state
VARIABLES
  pc,         \* position in the call sequence of the specification
  call,       \* SpecGen: the generation call, [fn, key, width, height, method]
  avatar,     \* the *Avatar at hand (Nil or Ptr)
  keyAvatar,  \* the *KeyAvatar a keyed generation returned (Nil or Ptr)
  err,        \* the error the last call returned
  reads,      \* rand.Read calls the last generation made
  drawn,      \* bytes the entropy source delivered to the last generation
  op,         \* SpecPix: the last SetPixel call, [x, y, val], and the grid before it
  get,        \* SpecPix: the last GetPixel call, [x, y, ret]
  files,      \* filesystem: path -> content of each existing regular file
  dirs,       \* filesystem: the existing directories
  fsCall,     \* SpecFS: the last SaveAvatar / DeleteAvatar call, its error, and
              \*   what the calls on its folder and key had come to before it
  hist,       \* SpecFS: per (folder, key), what the calls on it have come to
  procs,      \* SpecConc: the two running SaveAvatar calls, [pc, ka, data] each
  lastWriter  \* SpecConc: the call whose write to the file finished last (0: none)

vars == <<pc, call, avatar, keyAvatar, err, reads, drawn, op, get,
          files, dirs, fsCall, hist, procs, lastWriter>>

genVars == <<call, avatar, keyAvatar, err, reads, drawn>>
pixVars == <<op, get>>
fsVars == <<files, dirs, fsCall, hist>>

NoCall == [fn |-> "", key |-> "", width |-> 0, height |-> 0, method |-> ""]
NoOp == [x |-> 0, y |-> 0, val |-> FALSE, before |-> Nil]
NoGet == [x |-> 0, y |-> 0, ret |-> FALSE]
NoFsCall == [fn |-> "", folder |-> <<>>, key |-> "", ka |-> Nil, err |-> NoErr,
             after |-> "none"]
EmptyFS == [p \in {} |-> <<>>]

\* ------------------------------------------------------------------ inputs
Keys == {"u1", "u2"}
Methods == {"symmetric", "none", "", "blocky"}
Widths == -1..MaxW
Heights == -1..MaxH

GenCalls ==
  [fn : {"GenerateAvatar", "GenerateSymmetric"}, key : {""},
   width : Widths, height : Heights, method : {""}]
  \cup [fn : {"GenerateKeyAvatar"}, key : {"u1"},
        width : Widths, height : Heights, method : Methods]

\* ----------------------------------------------------------------- SpecGen
InitRest ==
  /\ op = NoOp /\ get = NoGet
  /\ files = EmptyFS /\ dirs = {} /\ fsCall = NoFsCall /\ hist = <<>>
  /\ procs = <<>> /\ lastWriter = 0

InitGen ==
  /\ pc = "call"
  /\ call \in GenCalls
  /\ avatar = Nil /\ keyAvatar = Nil /\ err = NoErr /\ reads = 0 /\ drawn = <<>>
  /\ InitRest

GenerateAvatarCall ==
  /\ pc = "call" /\ call.fn = "GenerateAvatar"
  /\ \E src \in Sources :
       LET r == GenerateAvatar(call.width, call.height, src)
       IN  /\ avatar' = r.avatar
           /\ err' = r.err
           /\ reads' = r.reads
           /\ drawn' = SubSeq(src.bytes, 1, r.used)
  /\ pc' = "done"
  /\ UNCHANGED <<call, keyAvatar, pixVars, fsVars, procs, lastWriter>>

GenerateSymmetricCall ==
  /\ pc = "call" /\ call.fn = "GenerateSymmetric"
  /\ \E src \in Sources :
       LET r == GenerateSymmetric(call.width, call.height, src)
       IN  /\ avatar' = r.avatar
           /\ err' = r.err
           /\ reads' = r.reads
           /\ drawn' = SubSeq(src.bytes, 1, r.used)
  /\ pc' = "done"
  /\ UNCHANGED <<call, keyAvatar, pixVars, fsVars, procs, lastWriter>>

GenerateKeyAvatarCall ==
  /\ pc = "call" /\ call.fn = "GenerateKeyAvatar"
  /\ \E src \in Sources :
       LET r == GenerateKeyAvatar(call.key, call.width, call.height, call.method, src)
       IN  /\ keyAvatar' = r.keyAvatar
           /\ err' = r.err
           /\ reads' = r.reads
           /\ drawn' = SubSeq(src.bytes, 1, r.used)
  /\ pc' = "done"
  /\ UNCHANGED <<call, avatar, pixVars, fsVars, procs, lastWriter>>

NextGen == GenerateAvatarCall \/ GenerateSymmetricCall \/ GenerateKeyAvatarCall

SpecGen == InitGen /\ [][NextGen]_vars

\* ----------------------------------------------------------------- SpecPix
\* A grid is created by one of the fills; then SetPixel is called once, with
\* any coordinates and value, and GetPixel once, with any coordinates.
InitPix ==
  /\ pc = "new"
  /\ call = NoCall
  /\ avatar = Nil /\ keyAvatar = Nil /\ err = NoErr /\ reads = 0 /\ drawn = <<>>
  /\ InitRest

NewRandom ==
  /\ pc = "new"
  /\ \E width \in Widths, height \in Heights, src \in Sources :
       LET r == GenerateAvatar(width, height, src)
       IN  /\ avatar' = r.avatar
           /\ err' = r.err
           /\ pc' = IF r.err = NoErr THEN "filled" ELSE "new"
  /\ UNCHANGED <<call, keyAvatar, reads, drawn, pixVars, fsVars, procs, lastWriter>>

NewSymmetric ==
  /\ pc = "new"
  /\ \E width \in Widths, height \in Heights, src \in Sources :
       LET r == GenerateSymmetric(width, height, src)
       IN  /\ avatar' = r.avatar
           /\ err' = r.err
           /\ pc' = IF r.err = NoErr THEN "filled" ELSE "new"
  /\ UNCHANGED <<call, keyAvatar, reads, drawn, pixVars, fsVars, procs, lastWriter>>

\* Coordinates a caller passes: every column and row of the grid, and the
\* first one outside it on each side.
XCoords(a) == -1..a.Width
YCoords(a) == -1..a.Height

SetPixelCall ==
  /\ pc = "filled"
  /\ \E x \in XCoords(avatar[1]), y \in YCoords(avatar[1]), val \in BOOLEAN :
       /\ op' = [x |-> x, y |-> y, val |-> val, before |-> avatar]
       /\ avatar' = Ptr(SetPixel(avatar[1], x, y, val))
  /\ pc' = "set"
  /\ UNCHANGED <<call, keyAvatar, err, reads, drawn, get, fsVars, procs, lastWriter>>

GetPixelCall ==
  /\ pc \in {"filled", "set"}
  /\ \E x \in XCoords(avatar[1]), y \in YCoords(avatar[1]) :
       get' = [x |-> x, y |-> y, ret |-> GetPixel(avatar[1], x, y)]
  /\ pc' = "got"
  /\ UNCHANGED <<call, avatar, keyAvatar, err, reads, drawn, op, fsVars, procs, lastWriter>>

NextPix == NewRandom \/ NewSymmetric \/ SetPixelCall \/ GetPixelCall

SpecPix == InitPix /\ [][NextPix]_vars

\* ------------------------------------------------------------------ SpecFS
Folders == {<<"av", "x">>}
SaveFaults == {"none", "encode", "mkdir", "open", "write"}
DeleteFaults == {"none", "perm"}
\* Sizes of the avatars that get saved.
SaveDims == {<<1, 1>>, <<2, 1>>}
\* Entropy sources that deliver one byte value throughout and never fail.
SaveSources == {[bytes |-> [i \in 1..SrcLen |-> b], failAt |-> 0] : b \in ByteVals}
\* The KeyAvatars that get saved: results of GenerateKeyAvatar.
SaveKeyAvatars ==
  {GenerateKeyAvatar(k, d[1], d[2], m, src).keyAvatar[1] :
     k \in Keys, d \in SaveDims, m \in {"symmetric", "none"}, src \in SaveSources}

\* Per (folder, key), while every call on it has succeeded: the last call
\* and the grid it saved.  Once a call on it has failed: "failed".
NoHist == [last |-> "none", grid |-> Nil]
FailedHist == [last |-> "failed", grid |-> Nil]

InitFS ==
  /\ pc = "fs"
  /\ call = NoCall
  /\ avatar = Nil /\ keyAvatar = Nil /\ err = NoErr /\ reads = 0 /\ drawn = <<>>
  /\ op = NoOp /\ get = NoGet
  /\ files = EmptyFS /\ dirs = {} /\ fsCall = NoFsCall
  /\ hist = [fk \in Folders \X Keys |-> NoHist]
  /\ procs = <<>> /\ lastWriter = 0

SaveAvatarCall ==
  /\ pc = "fs"
  /\ \E folder \in Folders, ka \in SaveKeyAvatars, fault \in SaveFaults :
       LET r == SaveAvatar(files, dirs, folder, ka, fault)
           fk == <<folder, ka.Key>>
       IN  /\ files' = r.files
           /\ dirs' = r.dirs
           /\ fsCall' = [fn |-> "SaveAvatar", folder |-> folder, key |-> ka.Key,
                         ka |-> Ptr(ka), err |-> r.err, after |-> hist[fk].last]
           /\ hist' = [hist EXCEPT ![fk] =
                IF r.err = NoErr /\ @.last # "failed"
                THEN [last |-> "save", grid |-> Ptr(ka.Avatar)]
                ELSE FailedHist]
  /\ UNCHANGED <<pc, genVars, pixVars, procs, lastWriter>>

DeleteAvatarCall ==
  /\ pc = "fs"
  /\ \E folder \in Folders, key \in Keys, fault \in DeleteFaults :
       LET r == DeleteAvatar(files, folder, key, fault)
           fk == <<folder, key>>
       IN  /\ files' = r.files
           /\ fsCall' = [fn |-> "DeleteAvatar", folder |-> folder, key |-> key,
                         ka |-> Nil, err |-> r.err, after |-> hist[fk].last]
           /\ hist' = [hist EXCEPT ![fk] =
                IF r.err = NoErr /\ @.last # "failed"
                THEN [last |-> "delete", grid |-> Nil]
                ELSE FailedHist]
  /\ UNCHANGED <<pc, dirs, genVars, pixVars, procs, lastWriter>>

NextFS == SaveAvatarCall \/ DeleteAvatarCall

SpecFS == InitFS /\ [][NextFS]_vars

\* ---------------------------------------------------------------- SpecConc
\* Two SaveAvatar calls on the same folder and key, with different grids,
\* run at once.  Each goes through the steps of SaveAvatar; os.WriteFile is
\* an open that truncates followed by a write at offset 0.  No step fails.
Procs == {1, 2}
ConcFolder == <<"av", "x">>
ConcKey == "u1"
ConcFile == Join(ConcFolder, ConcKey \o ".png")
ConcKeyAvatars == {ka \in SaveKeyAvatars : ka.Key = ConcKey}

InitConc ==
  /\ pc = "conc"
  /\ call = NoCall
  /\ avatar = Nil /\ keyAvatar = Nil /\ err = NoErr /\ reads = 0 /\ drawn = <<>>
  /\ op = NoOp /\ get = NoGet
  /\ files = EmptyFS /\ dirs = {} /\ fsCall = NoFsCall /\ hist = <<>>
  /\ \E k1 \in ConcKeyAvatars, k2 \in ConcKeyAvatars :
       /\ k1.Avatar # k2.Avatar
       /\ procs = [i \in Procs |->
                     [pc |-> "render", ka |-> IF i = 1 THEN k1 ELSE k2, data |-> <<>>]]
  /\ lastWriter = 0

\* pngData, err := RenderPNG(ka.Avatar)
Render(i) ==
  /\ procs[i].pc = "render"
  /\ procs' = [procs EXCEPT ![i].pc = "mkdir",
                            ![i].data = RenderPNG(procs[i].ka.Avatar)]
  /\ UNCHANGED <<pc, genVars, pixVars, fsVars, lastWriter>>

\* os.MkdirAll(folder, 0755)
Mkdir(i) ==
  /\ procs[i].pc = "mkdir"
  /\ dirs' = MkdirAll(dirs, ConcFolder)
  /\ procs' = [procs EXCEPT ![i].pc = "open"]
  /\ UNCHANGED <<pc, genVars, pixVars, files, fsCall, hist, lastWriter>>

\* os.WriteFile, first half: the file is created or truncated.
Open(i) ==
  /\ procs[i].pc = "open"
  /\ files' = OpenTrunc(files, Join(ConcFolder, procs[i].ka.Key \o ".png"))
  /\ procs' = [procs EXCEPT ![i].pc = "write"]
  /\ UNCHANGED <<pc, genVars, pixVars, dirs, fsCall, hist, lastWriter>>

\* os.WriteFile, second half: the data is written and SaveAvatar returns nil.
Write(i) ==
  /\ procs[i].pc = "write"
  /\ files' = WriteAt0(files, Join(ConcFolder, procs[i].ka.Key \o ".png"),
                       procs[i].data)
  /\ procs' = [procs EXCEPT ![i].pc = "done"]
  /\ lastWriter' = i
  /\ UNCHANGED <<pc, genVars, pixVars, dirs, fsCall, hist>>

NextConc == \E i \in Procs : Render(i) \/ Mkdir(i) \/ Open(i) \/ Write(i)

SpecConc == InitConc /\ [][NextConc]_vars

\* ------------------------------------------------- claims on the generation
\* The grid a finished generation call returned.
Result == IF keyAvatar # Nil THEN keyAvatar[1].Avatar ELSE avatar[1]
Succeeded == pc = "done" /\ err = NoErr
IsSymmetricCall ==
  \/ call.fn = "GenerateSymmetric"
  \/ call.fn = "GenerateKeyAvatar" /\ call.method = "symmetric"
InvalidDims == call.width <= 0 \/ call.height <= 0
\* ceil(n / 2), written without the code's (n + 1) / 2.
CeilHalf(n) == (n \div 2) + (n % 2)
\* ceil(n / 8), written without the code's (n + 7) / 8.
CeilEighth(n) == (n \div 8) + (IF n % 8 = 0 THEN 0 ELSE 1)
\* Bit i (least significant first within each byte) of a pixel buffer.
RawBit(pixels, i) == (pixels[(i \div 8) + 1] \div (2 ^ (i % 8))) % 2

\* C1: a grid returned by GenerateSymmetric(width, height), or inside the
\* KeyAvatar returned by GenerateKeyAvatar(key, width, height, "symmetric"),
\* has GetPixel(x, y) = GetPixel(width-1-x, y) for every row y and column x.
C1_MirrorProperty ==
  (Succeeded /\ IsSymmetricCall) =>
     /\ Result.Width = call.width /\ Result.Height = call.height
     /\ \A y \in 0..(call.height - 1) : \A x \in 0..(call.width - 1) :
          GetPixel(Result, x, y) = GetPixel(Result, call.width - 1 - x, y)

\* A keyed mirrored fill of odd width with a set and a clear pixel in a row.
C1_Witness ==
  /\ Succeeded /\ call.fn = "GenerateKeyAvatar" /\ call.method = "symmetric"
  /\ call.width = 3 /\ call.height = 2
  /\ GetPixel(Result, 0, 1) /\ ~GetPixel(Result, 1, 1) /\ GetPixel(Result, 2, 1)

\* C5: every generation call given width <= 0 or height <= 0 fails with the
\* invalid-dimensions error, returns neither an Avatar nor a KeyAvatar, and
\* has read nothing from the entropy source.
C5_InvalidDimensions ==
  (pc = "done" /\ InvalidDims) =>
     /\ err = ErrInvalidDimensions
     /\ avatar = Nil /\ keyAvatar = Nil
     /\ reads = 0 /\ drawn = <<>>

\* A keyed mirrored generation of width 0 has been refused.
C5_Witness ==
  /\ pc = "done" /\ call.fn = "GenerateKeyAvatar" /\ call.method = "symmetric"
  /\ call.width = 0 /\ call.height = 2
  /\ err = ErrInvalidDimensions

\* C9: a successful GenerateSymmetric(width, height) has read the entropy
\* source exactly height * ceil(width/2) times, one byte per left-half pixel
\* in row-major order, and the low bit of each byte is the value of (x, y)
\* and of (width-1-x, y); a failed read ends the call with the random-read
\* error and no Avatar.
C9_SymmetricReads ==
  (pc = "done" /\ call.fn = "GenerateSymmetric" /\ ~InvalidDims) =>
     LET half == CeilHalf(call.width)
     IN  /\ err \in {NoErr, ErrRandomRead}
         /\ err = NoErr =>
              /\ avatar # Nil
              /\ reads = call.height * half
              /\ Len(drawn) = reads
              /\ \A y \in 0..(call.height - 1) : \A x \in 0..(half - 1) :
                   LET bit == (drawn[y * half + x + 1] % 2) = 1
                   IN  /\ GetPixel(avatar[1], x, y) = bit
                       /\ GetPixel(avatar[1], call.width - 1 - x, y) = bit
         /\ err = ErrRandomRead =>
              /\ avatar = Nil
              /\ reads = Len(drawn) + 1
              /\ reads <= call.height * half

\* A successful mirrored fill of odd width whose centre column got a bit of
\* its own.
C9_Witness ==
  /\ Succeeded /\ call.fn = "GenerateSymmetric"
  /\ call.width = 3 /\ call.height = 2 /\ reads = 4
  /\ drawn = <<254, 1, 1, 254>>

\* ------------------------------------------------- claims on the accessors
\* (x, y) is outside [0, width) x [0, height), written without the code's test.
Outside(a, x, y) == ~(x \in 0..(a.Width - 1) /\ y \in 0..(a.Height - 1))
SetDone == op.before # Nil
SetInBounds == SetDone /\ ~Outside(op.before[1], op.x, op.y)
SetOutOfBounds == SetDone /\ Outside(op.before[1], op.x, op.y)

\* C3: for (x, y) outside the grid, GetPixel returns false whatever SetPixel
\* call came before, and SetPixel leaves Width, Height and every byte of
\* Pixels as they were.
C3_OutOfBounds ==
  /\ (pc = "got" /\ Outside(avatar[1], get.x, get.y)) => get.ret = FALSE
  /\ SetOutOfBounds => avatar = op.before

\* SetPixel(-1, y, true) was called, then GetPixel(-1, y).
C3_Witness ==
  /\ pc = "got" /\ SetOutOfBounds /\ op.val /\ op.x = -1 /\ op.y = 1
  /\ get.x = op.x /\ get.y = op.y
  /\ avatar[1].Pixels = <<254, 254>>

\* C4: for in-bounds (x, y), SetPixel(x, y, v) followed by GetPixel(x, y)
\* returns v, and the bit written is bit (y*width+x) mod 8, least significant
\* first, of byte (y*width+x) div 8.
C4_RoundTrip ==
  /\ (pc = "got" /\ SetInBounds /\ get.x = op.x /\ get.y = op.y) => get.ret = op.val
  /\ SetInBounds =>
       RawBit(avatar[1].Pixels, op.y * avatar[1].Width + op.x)
         = (IF op.val THEN 1 ELSE 0)

\* A set pixel of the second buffer byte was cleared and read back.
C4_Witness ==
  /\ pc = "got" /\ SetInBounds /\ ~op.val
  /\ op.before[1].Width = 3 /\ op.x = 2 /\ op.y = 2
  /\ GetPixel(op.before[1], 2, 2)
  /\ get.x = 2 /\ get.y = 2

\* C6: a grid returned by a fill has a Pixels buffer of ceil(width*height/8)
\* bytes, and that length, Width and Height are the same after the SetPixel
\* and GetPixel calls.
C6_BufferLength ==
  /\ avatar # Nil =>
       Len(avatar[1].Pixels) = CeilEighth(avatar[1].Width * avatar[1].Height)
  /\ SetDone =>
       /\ avatar[1].Width = op.before[1].Width
       /\ avatar[1].Height = op.before[1].Height
       /\ Len(avatar[1].Pixels) = Len(op.before[1].Pixels)

\* A two-byte grid after an in-bounds SetPixel and a GetPixel.
C6_Witness ==
  /\ pc = "got" /\ SetInBounds
  /\ avatar[1].Width = 3 /\ avatar[1].Height = 3
  /\ Len(avatar[1].Pixels) = 2

\* C10: an in-bounds SetPixel(x, y, v) changes at most the bit of pixel
\* (x, y): every other pixel reads as before, and so does every padding bit
\* of the last byte.
C10_SetPixelFrame ==
  SetInBounds =>
    LET b == op.before[1]
        a == avatar[1]
        idx == op.y * b.Width + op.x
    IN  /\ \A y \in 0..(b.Height - 1) : \A x \in 0..(b.Width - 1) :
             (x # op.x \/ y # op.y) => GetPixel(a, x, y) = GetPixel(b, x, y)
        /\ \A i \in 0..(8 * Len(b.Pixels) - 1) :
             i # idx => RawBit(a.Pixels, i) = RawBit(b.Pixels, i)

\* A clear pixel was set whose byte holds set pixels and set padding bits.
C10_Witness ==
  /\ SetInBounds /\ op.val
  /\ op.before[1].Width = 3 /\ op.before[1].Height = 2
  /\ op.before[1].Pixels = <<254>>
  /\ op.x = 0 /\ op.y = 0

\* ------------------------------------------------ claims on the filesystem
\* What a PNG decoder reads back from a byte stream: the size, then one
\* sample per pixel; bytes after the image are not looked at.
PngDecode(data) ==
  [Width |-> data[1], Height |-> data[2],
   Samples |-> SubSeq(data, 3, 2 + data[1] * data[2])]
\* The bytes hold an image, and it is grid a: white where GetPixel is true.
DecodesTo(data, a) ==
  /\ Len(data) >= 2
  /\ Len(data) >= 2 + data[1] * data[2]
  /\ LET img == PngDecode(data)
     IN  /\ img.Width = a.Width /\ img.Height = a.Height
         /\ \A y \in 0..(a.Height - 1) : \A x \in 0..(a.Width - 1) :
              (img.Samples[y * a.Width + x + 1] = 255) <=> GetPixel(a, x, y)
\* <folder>/<key>.png
PngPath(folder, key) == folder \o <<key \o ".png">>

C2_AfterCall ==
  /\ (fsCall.fn = "SaveAvatar" /\ fsCall.err = NoErr) =>
       LET p == GetAvatarPath(fsCall.folder, fsCall.key)
       IN  p \in DOMAIN files /\ DecodesTo(files[p], fsCall.ka[1].Avatar)
  /\ (fsCall.fn = "DeleteAvatar" /\ fsCall.err = NoErr) =>
       GetAvatarPath(fsCall.folder, fsCall.key) \notin DOMAIN files
  /\ (fsCall.fn = "DeleteAvatar" /\ fsCall.after = "delete") =>
       fsCall.err = ErrNotExist
C2_SecondDeleteStep ==
  (fsCall'.fn = "DeleteAvatar" /\ fsCall'.after = "delete") =>
     (files' = files /\ dirs' = dirs)

\* C2: after a successful SaveAvatar(folder, ka) the file at
\* GetAvatarPath(folder, key) exists and decodes to ka's grid; after a
\* successful DeleteAvatar(folder, key) it does not exist; a DeleteAvatar that
\* follows a successful one fails with the not-found error and leaves the
\* files and directories as they were.
C2_SaveDeleteDelete == [] C2_AfterCall /\ [][C2_SecondDeleteStep]_vars

\* DeleteAvatar was called twice running on a saved avatar, and the other
\* key's file is there.
C2_Witness ==
  /\ fsCall.fn = "DeleteAvatar" /\ fsCall.key = "u1" /\ fsCall.after = "delete"
  /\ fsCall.err = ErrNotExist
  /\ PngPath(fsCall.folder, "u2") \in DOMAIN files

C8_AfterCalls ==
  /\ \A folder \in Folders, key \in Keys :
       LET h == hist[<<folder, key>>]
           p == PngPath(folder, key)
       IN  h.last # "failed" =>
             /\ p \in DOMAIN files <=> h.last = "save"
             /\ h.last = "save" => DecodesTo(files[p], h.grid[1])
  /\ DOMAIN files \subseteq {PngPath(folder, key) : folder \in Folders, key \in Keys}
C8_OtherFilesStep ==
  \A q \in DOMAIN files \cup DOMAIN files' :
     q # PngPath(fsCall'.folder, fsCall'.key) =>
       (q \in DOMAIN files /\ q \in DOMAIN files' /\ files'[q] = files[q])

\* C8: while every SaveAvatar and DeleteAvatar call on a folder and key has
\* succeeded, <folder>/<key>.png exists exactly when the last of them was a
\* SaveAvatar, and then decodes to the grid of that SaveAvatar; a call
\* creates or changes no file but the .png of its own folder and key.
C8_SaveOverwrites == [] C8_AfterCalls /\ [][C8_OtherFilesStep]_vars

\* A SaveAvatar has replaced the file of an earlier SaveAvatar, and the other
\* key's file has been deleted.
C8_Witness ==
  /\ fsCall.fn = "SaveAvatar" /\ fsCall.err = NoErr /\ fsCall.key = "u1"
  /\ fsCall.after = "save"
  /\ hist[<<fsCall.folder, "u1">>].last = "save"
  /\ hist[<<fsCall.folder, "u2">>].last = "delete"

\* ----------------------------------------------- claim on concurrent saves
AllDone == pc = "conc" /\ \A i \in Procs : procs[i].pc = "done"

\* C7: when two concurrent SaveAvatar calls on one folder and key have both
\* returned success, the file holds exactly the encoded bytes of the grid
\* whose write finished last, never a mixture of the two encodings.
C7_LastWriterWins == AllDone => files[ConcFile] = procs[lastWriter].data

====
